---- MODULE Spec2Model ----
(***************************************************************************)
(* A model of the styling and dirty/clean core of addon_common:            *)
(*   common/ui_styling.py  selector matching and the cascade               *)
(*   common/ui_core.py     the UI_Core tree, its dirty flags and clean()   *)
(*                                                                         *)
(* Strings that the code takes apart character by character (selector     *)
(* elements such as 'p#a.note:hover') are sequences of atoms: a name is    *)
(* one atom, and each of the characters . # : > * is one atom.  '' is <<>>. *)
(***************************************************************************)
EXTENDS Integers, Sequences, FiniteSets, TLC

VARIABLES
    ui,     \* the UI_Core objects there are: node -> its fields
    ncalls, \* how many calls were made on the objects since the start
    call,   \* the call being made / made last: [op |-> ..., arguments]
    ret,    \* what that call returned, or the name of the exception it raised
    pc,     \* "idle": between calls on the tree; "call": the call of a pure
            \* function is pending; "done": it returned
    events  \* what that call did on the way, in order: the dirty() calls, the
            \* recomputations and the hooks invoked, each with its node

vars == <<ui, ncalls, call, ret, pc, events>>

\* no objects: the state of the tree while a pure function is examined
NoTree == ui = <<>> /\ ncalls = 0 /\ events = <<>>

None == "None"

(***************************************************************************)
(* ui_styling.py: UI_Style_RuleSet.match                                   *)
(***************************************************************************)

\* match.splitsel: the dict p and its transition table
splitsel_empty == [type |-> <<>>, class |-> <<>>, id |-> <<>>, pseudo |-> <<>>]

transition(c) == IF c = "." THEN "class" ELSE IF c = "#" THEN "id" ELSE "pseudo"

\* `if type(p[m]) is list: p[m].append(v) / else: p[m] = v`
splitsel_store(p, m, v) ==
    IF m \in {"class", "pseudo"}
    THEN [p EXCEPT ![m] = Append(@, v)]
    ELSE [p EXCEPT ![m] = v]

RECURSIVE splitsel_loop(_, _, _, _)
splitsel_loop(sel, p, v, m) ==
    IF sel = <<>> THEN splitsel_store(p, m, v)
    ELSE LET c == Head(sel) IN
         IF c \in {".", ":", "#"}
         THEN splitsel_loop(Tail(sel), splitsel_store(p, m, v), <<>>, transition(c))
         ELSE splitsel_loop(Tail(sel), p, v \o <<c>>, m)

splitsel(sel) == splitsel_loop(sel, splitsel_empty, <<>>, "type")

InList(c, l) == \E i \in DOMAIN l : l[i] = c

\* the mutant of elem_match: classes and pseudoclasses compared for set equality
elem_match_exact(ap, bp) ==
    /\ bp.type = <<"*">> \/ ap.type = bp.type
    /\ bp.id = <<>> \/ ap.id = bp.id
    /\ {ap.class[i] : i \in DOMAIN ap.class} = {bp.class[i] : i \in DOMAIN bp.class}
    /\ {ap.pseudo[i] : i \in DOMAIN ap.pseudo} = {bp.pseudo[i] : i \in DOMAIN bp.pseudo}

\* match.msel: the four `m &= ...` lines; ap is the node's element, bp the rule's
elem_match(ap, bp) ==
    /\ bp.type = <<"*">> \/ ap.type = bp.type
    /\ bp.id = <<>> \/ ap.id = bp.id
    /\ \A i \in DOMAIN bp.class : InList(bp.class[i], ap.class)
    /\ \A i \in DOMAIN bp.pseudo : InList(bp.pseudo[i], ap.pseudo)

\* match.msel(sa, sb, cont): sa is the node's chain, sb the rule's chain
RECURSIVE msel(_, _, _)
msel(sa, sb, cont) ==
    IF Len(sa) = 0 THEN TRUE
    ELSE IF Len(sb) = 0 THEN FALSE
    ELSE LET a0 == sa[1]
             b0 == sb[1]
         IN  IF b0 = <<">">> THEN msel(sa, Tail(sb), FALSE)
             ELSE IF elem_match(splitsel(a0), splitsel(b0)) /\ msel(Tail(sa), Tail(sb), TRUE)
                  THEN TRUE
                  ELSE IF cont THEN msel(sa, Tail(sb), TRUE)
                  ELSE FALSE

\* UI_Style_RuleSet.match(selector): any of the rule's selectors
match(rule, selector) ==
    \E i \in DOMAIN rule.selectors : msel(selector, rule.selectors[i], TRUE)

(***************************************************************************)
(* How the two kinds of element strings are built.                         *)
(***************************************************************************)

\* a set in some order (Python iterates a set in an arbitrary order; the
\* order only decides the order of the .class / :pseudo suffixes)
RECURSIVE SetToSeq(_)
SetToSeq(S) ==
    IF S = {} THEN <<>>
    ELSE LET x == CHOOSE y \in S : TRUE IN <<x>> \o SetToSeq(S \ {x})

RECURSIVE JoinPrefixed(_, _)
JoinPrefixed(ch, names) ==
    IF names = <<>> THEN <<>>
    ELSE <<ch, Head(names)>> \o JoinPrefixed(ch, Tail(names))

\* UI_Core._compute_style: sel_type + sel_id + sel_cls + sel_pseudo
\* (id = "" stands for a falsy _id)
node_selector(sel_type, id, cls, pseudo) ==
    <<sel_type>>
    \o (IF id # "" THEN <<"#", id>> ELSE <<>>)
    \o JoinPrefixed(".", SetToSeq(cls))
    \o JoinPrefixed(":", SetToSeq(pseudo))

\* UI_Style_RuleSet.__init__.elem: the type ('*' when the element starts with
\* a suffix) followed by the .class / #id / :pseudoclass suffixes as written
RECURSIVE FlattenSuffixes(_)
FlattenSuffixes(sfx) ==
    IF sfx = <<>> THEN <<>> ELSE Head(sfx) \o FlattenSuffixes(Tail(sfx))

elem(type, suffixes) == <<type>> \o FlattenSuffixes(suffixes)

(***************************************************************************)
(* Matching one rule chain against one node chain (SpecMatch).             *)
(***************************************************************************)

MaxChain == 3       \* longest node chain and longest rule chain drawn

\* node elements and rule elements used for the chain claims
ChainNodeElems == { <<"div">>, <<"span">>, <<"p">>, <<"p", ".", "note">> }
ChainRuleElems == { <<"div">>, <<"span">>, <<"p", ".", "note">>, <<"*">> }

SeqsUpTo(S, n) == UNION { [1..k -> S] : k \in 1..n }

\* a rule chain: elements, each but the first optionally preceded by '>'
RECURSIVE Interleave(_, _)
Interleave(elems, direct) ==
    IF Len(elems) = 1 THEN elems
    ELSE <<Head(elems)>>
         \o (IF Head(direct) THEN << <<">">> >> ELSE <<>>)
         \o Interleave(Tail(elems), Tail(direct))

RuleChains ==
    { Interleave(es, d) :
        <<es, d>> \in UNION { [1..k -> ChainRuleElems] \X [1..(k-1) -> BOOLEAN] : k \in 1..MaxChain } }

NodeChains == SeqsUpTo(ChainNodeElems, MaxChain)

InitMatch ==
    /\ NoTree
    /\ call \in { [op |-> "match", selector |-> s, rule |-> [selectors |-> <<r>>]] :
                    s \in NodeChains, r \in RuleChains }
    /\ ret = None
    /\ pc = "call"

RuleSetMatch ==
    /\ pc = "call"
    /\ call.op = "match"
    /\ ret' = match(call.rule, call.selector)
    /\ pc' = "done"
    /\ UNCHANGED <<call, ui, ncalls, events>>

NextMatch == RuleSetMatch

SpecMatch == InitMatch /\ [][NextMatch]_vars

(***************************************************************************)
(* What the specification states about chains, for one rule chain sb and   *)
(* one node chain sa.                                                      *)
(***************************************************************************)

ElemMatches(a, b) == elem_match(splitsel(a), splitsel(b))

IsCombinator(e) == e = <<">">>

RuleElemsOf(sb) == SelectSeq(sb, LAMBDA e : ~IsCombinator(e))

\* the rule's elements can be laid, in order, on elements of the node chain
RECURSIVE Embeds(_, _)
Embeds(rs, ns) ==
    IF rs = <<>> THEN TRUE
    ELSE IF ns = <<>> THEN FALSE
    ELSE \/ ElemMatches(Head(ns), Head(rs)) /\ Embeds(Tail(rs), Tail(ns))
         \/ Embeds(rs, Tail(ns))

MatchDone == pc = "done" /\ call.op = "match"

\* C6: a rule chain `A B` matches exactly the node chains whose last element
\* matches B and that have an element matching A anywhere before it; `A > B`
\* matches exactly those whose last element matches B and whose element
\* immediately before it matches A.
C6_CombinatorsDistinguished ==
    MatchDone =>
        LET sa == call.selector
            sb == call.rule.selectors[1]
            n  == Len(sa)
        IN  /\ (Len(sb) = 2 /\ ~IsCombinator(sb[1]) /\ ~IsCombinator(sb[2])) =>
                   (ret <=> /\ ElemMatches(sa[n], sb[2])
                            /\ \E i \in 1..(n-1) : ElemMatches(sa[i], sb[1]))
            /\ (Len(sb) = 3 /\ IsCombinator(sb[2])) =>
                   (ret <=> /\ n >= 2
                            /\ ElemMatches(sa[n], sb[3])
                            /\ ElemMatches(sa[n-1], sb[1]))

\* C7: a rule chain matches a node chain only if the rule chain's rightmost
\* element matches the node chain's rightmost element (the node itself).
C7_RightmostMustMatch ==
    (MatchDone /\ ret = TRUE) =>
        LET sa == call.selector
            sb == call.rule.selectors[1]
        IN  ElemMatches(sa[Len(sa)], sb[Len(sb)])

\* C8: a rule chain matches only if every one of its elements is matched, in
\* order, by some element of the node chain; none may be skipped.
C8_NoRuleElementSkipped ==
    (MatchDone /\ ret = TRUE) =>
        Embeds(RuleElemsOf(call.rule.selectors[1]), call.selector)

(***************************************************************************)
(* Matching one rule element against one node element (SpecElem).          *)
(***************************************************************************)

MaxSuffix == 2      \* most .class / #id / :pseudoclass suffixes on a rule element

ElemTypes   == {"div", "p"}
ElemIds     == {"a", "b"}
ElemClasses == {"x", "y"}
ElemPseudos == {"hover", "active"}

\* a node's identity: what UI_Core keeps in selector_type, _id, _classes, _pseudoclasses
NodeIdentities ==
    [type : ElemTypes, id : ElemIds \cup {""}, classes : SUBSET ElemClasses,
     pseudo : SUBSET ElemPseudos]

Suffixes ==
    { <<".", c>> : c \in ElemClasses } \cup { <<"#", i>> : i \in ElemIds }
        \cup { <<":", q>> : q \in ElemPseudos }

IdCount(sfx) == Cardinality({ i \in DOMAIN sfx : sfx[i][1] = "#" })

\* a rule element as written: a type or '*', and suffixes in any order, one id at most
RuleElements ==
    { [type |-> t, suffixes |-> sfx] :
        t \in ElemTypes \cup {"*"},
        sfx \in { x \in UNION { [1..k -> Suffixes] : k \in 0..MaxSuffix } : IdCount(x) <= 1 } }

InitElem ==
    /\ NoTree
    /\ call \in { [op |-> "match_elem", node |-> n, rule_elem |-> r] :
                    n \in NodeIdentities, r \in RuleElements }
    /\ ret = None
    /\ pc = "call"

\* the node's element built as _compute_style builds it, the rule's as the
\* parser builds it, and the two matched as one-element chains
RuleSetMatchElem ==
    /\ pc = "call"
    /\ call.op = "match_elem"
    /\ ret' = match([selectors |-> << <<elem(call.rule_elem.type, call.rule_elem.suffixes)>> >>],
                    <<node_selector(call.node.type, call.node.id, call.node.classes,
                                    call.node.pseudo)>>)
    /\ pc' = "done"
    /\ UNCHANGED <<call, ui, ncalls, events>>

NextElem == RuleSetMatchElem

SpecElem == InitElem /\ [][NextElem]_vars

SuffixNames(r, ch) == { r.suffixes[i][2] : i \in { j \in DOMAIN r.suffixes : r.suffixes[j][1] = ch } }

\* C9: a selector element matches a node element iff the selector type is `*`
\* or the node's type, the selector id is empty or the node's id, every
\* selector class is one of the node's classes and every selector pseudoclass
\* one of the node's pseudoclasses; extra classes on the node never matter.
C9_ElementMatchIsSubsetTest ==
    (pc = "done" /\ call.op = "match_elem") =>
        LET n == call.node
            r == call.rule_elem
        IN  ret <=> /\ r.type = "*" \/ r.type = n.type
                    /\ SuffixNames(r, "#") = {} \/ SuffixNames(r, "#") = {n.id}
                    /\ SuffixNames(r, ".") \subseteq n.classes
                    /\ SuffixNames(r, ":") \subseteq n.pseudo

\* a match of a rule element that names a class and an id, on a node that has
\* a class and a pseudoclass the rule does not name
C9_Witness ==
    /\ pc = "done" /\ call.op = "match_elem" /\ ret = TRUE
    /\ SuffixNames(call.rule_elem, ".") # {}
    /\ call.node.classes \ SuffixNames(call.rule_elem, ".") # {}
    /\ call.node.pseudo \ SuffixNames(call.rule_elem, ":") # {}
    /\ SuffixNames(call.rule_elem, "#") # {}

(***************************************************************************)
(* ui_styling.py: the cascade.                                             *)
(*                                                                         *)
(* A value token is a number or a word; a declaration's value is one token *)
(* or a tuple of tokens (`type(v) is tuple`).                              *)
(***************************************************************************)

Num(n)  == [t |-> "num",  n |-> n, w |-> ""]
Word(w) == [t |-> "word", n |-> 0, w |-> w]

Single(x) == [tuple |-> FALSE, items |-> <<x>>]
Tuple(xs) == [tuple |-> TRUE,  items |-> xs]

\* UI_Style_Declaration: property and value
Decl(p, v) == [property |-> p, value |-> v]

\* a stylesheet is its list of rules; a stylesheet argument that is None
\* contributes no declaration, as a stylesheet without rules does
NoStyling == [rules |-> <<>>]

RECURSIVE Concat(_)
Concat(ss) == IF ss = <<>> THEN <<>> ELSE Head(ss) \o Concat(Tail(ss))

\* UI_Styling.get_decllist
get_decllist(styling, selector) ==
    Concat([i \in DOMAIN styling.rules |->
                IF match(styling.rules[i], selector) THEN styling.rules[i].decllist ELSE <<>>])

\* a split whose left side repeats the top one when three values are given
\* (the mutant of trbl_split)
trbl_split_left_is_top(v) ==
    IF ~v.tuple THEN <<v, v, v, v>>
    ELSE LET x(i) == Single(v.items[i]) IN
         IF Len(v.items) = 1 THEN <<x(1), x(1), x(1), x(1)>>
         ELSE IF Len(v.items) = 2 THEN <<x(1), x(2), x(1), x(2)>>
         ELSE IF Len(v.items) = 3 THEN <<x(1), x(2), x(3), x(1)>>
         ELSE <<x(1), x(2), x(3), x(4)>>

\* UI_Styling._trbl_split
trbl_split(v) ==
    IF ~v.tuple THEN <<v, v, v, v>>
    ELSE LET x(i) == Single(v.items[i]) IN
         IF Len(v.items) = 1 THEN <<x(1), x(1), x(1), x(1)>>
         ELSE IF Len(v.items) = 2 THEN <<x(1), x(2), x(1), x(2)>>
         ELSE IF Len(v.items) = 3 THEN <<x(1), x(2), x(3), x(2)>>
         ELSE <<x(1), x(2), x(3), x(4)>>

EmptyDict == [k \in {} |-> None]

\* a dict that keeps the value a key already has (the mutant of DictSet)
DictSetDefault(d, k, v) == [x \in DOMAIN d \cup {k} |-> IF x \in DOMAIN d THEN d[x] ELSE v]

\* decllist[k] = v
DictSet(d, k, v) == [x \in DOMAIN d \cup {k} |-> IF x = k THEN v ELSE d[x]]

DictSet4(d, k1, k2, k3, k4, vals) ==
    DictSet(DictSet(DictSet(DictSet(d, k1, vals[1]), k2, vals[2]), k3, vals[3]), k4, vals[4])

Side(p, side) == IF p = "margin" THEN "margin-" \o side ELSE "padding-" \o side

\* UI_Styling._expand_declarations: the body of `for decl in decls`
expand_one(decllist, decl) ==
    LET p == decl.property
        v == decl.value
    IN  IF p \in {"margin", "padding"} THEN
            DictSet4(decllist, Side(p, "top"), Side(p, "right"), Side(p, "bottom"),
                     Side(p, "left"), trbl_split(v))
        ELSE IF p = "border" THEN
            LET w  == IF ~v.tuple THEN Tuple(v.items) ELSE v
                d1 == DictSet(decllist, "border-width", Single(w.items[1]))
            IN  IF Len(w.items) > 1
                THEN DictSet4(d1, "border-top-color", "border-right-color",
                              "border-bottom-color", "border-left-color",
                              trbl_split(Tuple(Tail(w.items))))
                ELSE d1
        ELSE IF p = "border-color" THEN
            DictSet4(decllist, "border-top-color", "border-right-color",
                     "border-bottom-color", "border-left-color", trbl_split(v))
        ELSE IF p = "background" THEN DictSet(decllist, "background-color", v)
        ELSE IF p = "width" THEN DictSet(DictSet(decllist, "min-width", v), "max-width", v)
        ELSE IF p = "height" THEN DictSet(DictSet(decllist, "min-height", v), "max-height", v)
        ELSE DictSet(decllist, p, v)

RECURSIVE expand_loop(_, _)
expand_loop(decls, decllist) ==
    IF decls = <<>> THEN decllist
    ELSE expand_loop(Tail(decls), expand_one(decllist, Head(decls)))

\* `filter out properties with initial values`
filter_initial(decllist) ==
    [k \in { x \in DOMAIN decllist : decllist[x] # Single(Word("initial")) } |-> decllist[k]]

\* UI_Styling._expand_declarations
expand_declarations(decls) == filter_initial(expand_loop(decls, EmptyDict))

\* dict.update
DictUpdate(d, e) == [k \in DOMAIN d \cup DOMAIN e |-> IF k \in DOMAIN e THEN e[k] ELSE d[k]]

\* UI_Styling.compute_style (the `if False:` branch is dead code)
compute_style(self, selector, initial_styling, override_styling) ==
    LET full == get_decllist(self, selector) \o get_decllist(override_styling, selector)
        init_decllist == expand_declarations(get_decllist(initial_styling, selector))
        full_decllist == expand_declarations(full)
    IN  DictUpdate(init_decllist, full_decllist)

(***************************************************************************)
(* compute_style on one stylesheet (SpecCascade).                          *)
(***************************************************************************)

MaxRules == 2       \* most rules in the stylesheet drawn

\* the rule selectors drawn: one to three parts, of several kinds
CascadeSelectors ==
    { << <<"*">> >>,
      << <<"p", ".", "note", ":", "hover">> >>,
      << <<"div">>, <<">">>, <<"p", ".", "note">> >>,
      << <<"span">> >> }

\* the declaration lists drawn
CascadeDecllists ==
    { << Decl("margin", Tuple(<<Num(1), Num(2)>>)) >>,
      << Decl("margin-top", Single(Word("initial"))) >>,
      << Decl("margin-top", Single(Num(4))), Decl("margin", Single(Num(5))) >>,
      << Decl("margin", Single(Num(6))), Decl("margin-top", Single(Num(7))) >>,
      << Decl("border", Tuple(<<Num(1), Word("red")>>)) >>,
      << Decl("border", Single(Num(2))), Decl("border-top-color", Single(Word("blue"))) >>,
      << Decl("width", Single(Num(5))), Decl("min-width", Single(Num(1))) >> }

CascadeRules == [selectors : { <<c>> : c \in CascadeSelectors }, decllist : CascadeDecllists]

CascadeChains == { << <<"p", ".", "note", ":", "hover">> >>, << <<"div">>, <<"p", ".", "note">> >> }

InitCascade ==
    /\ NoTree
    /\ call \in { [op |-> "compute_style", self |-> [rules |-> rs], selector |-> s] :
                    rs \in UNION { [1..k -> CascadeRules] : k \in 0..MaxRules },
                    s \in CascadeChains }
    /\ ret = None
    /\ pc = "call"

ComputeStyle ==
    /\ pc = "call"
    /\ call.op = "compute_style"
    /\ ret' = compute_style(call.self, call.selector, NoStyling, NoStyling)
    /\ pc' = "done"
    /\ UNCHANGED <<call, ui, ncalls, events>>

NextCascade == ComputeStyle

SpecCascade == InitCascade /\ [][NextCascade]_vars

Longhands ==
    { "margin-top", "margin-right", "margin-bottom", "margin-left",
      "border-width", "border-top-color", "border-right-color", "border-bottom-color",
      "border-left-color", "min-width", "max-width" }

\* the places <<rule, declaration>> of the stylesheet whose rule matches the
\* chain and whose declaration writes longhand k, directly or by expansion
WritersOf(k) ==
    { w \in UNION { { <<i, j>> : j \in DOMAIN call.self.rules[i].decllist } :
                      i \in DOMAIN call.self.rules } :
        /\ match(call.self.rules[w[1]], call.selector)
        /\ k \in DOMAIN expand_one(EmptyDict, call.self.rules[w[1]].decllist[w[2]]) }

Later(a, b) == a[1] > b[1] \/ (a[1] = b[1] /\ a[2] >= b[2])

LastWriter(k) == CHOOSE w \in WritersOf(k) : \A u \in WritersOf(k) : Later(w, u)

WrittenBy(w, k) == expand_one(EmptyDict, call.self.rules[w[1]].decllist[w[2]])[k]

\* C10: within one stylesheet, a longhand set by matching rules resolves to
\* the value written by the last declaration, in parse order, that sets it
\* (a last value of `initial` leaves it unset), whatever the selectors of the
\* rules look like; a longhand no matching rule sets is not in the result.
C10_LastDeclarationWins ==
    (pc = "done" /\ call.op = "compute_style") =>
        \A k \in Longhands :
            IF WritersOf(k) = {} THEN k \notin DOMAIN ret
            ELSE LET v == WrittenBy(LastWriter(k), k) IN
                 IF v = Single(Word("initial")) THEN k \notin DOMAIN ret
                 ELSE k \in DOMAIN ret /\ ret[k] = v

\* two matching rules, the first with more selector parts than the second,
\* write different values to one longhand, and the second one's is the result
C10_Witness ==
    /\ pc = "done" /\ call.op = "compute_style"
    /\ \E k \in Longhands : \E a \in WritersOf(k) : \E b \in WritersOf(k) :
          /\ a[1] < b[1]
          /\ b = LastWriter(k)
          /\ Len(call.self.rules[a[1]].selectors[1]) > Len(call.self.rules[b[1]].selectors[1])
          /\ WrittenBy(a, k) # WrittenBy(b, k)
          /\ k \in DOMAIN ret /\ ret[k] = WrittenBy(b, k)

(***************************************************************************)
(* compute_style on three stylesheets (SpecLayers): the receiver, the      *)
(* initial styling and the override styling, as _compute_style passes the  *)
(* default style of the class, the stylesheet of ui_draw and the custom    *)
(* style of the node.                                                      *)
(***************************************************************************)

MaxLayerRules == 2      \* most rules in the receiver and in the initial styling

LayerSelectors == { << <<"*">> >>, << <<"span">> >> }

LayerDecllists ==
    { << Decl("margin-top", Single(Num(5))) >>,
      << Decl("margin-top", Single(Word("initial"))) >>,
      << Decl("margin", Tuple(<<Num(1), Num(2)>>)) >> }

LayerRules == [selectors : { <<c>> : c \in LayerSelectors }, decllist : LayerDecllists]

LayerStylings ==
    { [rules |-> rs] : rs \in UNION { [1..k -> LayerRules] : k \in 0..MaxLayerRules } }

\* the custom style of a node is one rule, '*{...}'
OverrideStylings ==
    { NoStyling } \cup
    { [rules |-> << [selectors |-> << << <<"*">> >> >>, decllist |-> d] >>] : d \in LayerDecllists }

LayerChains == { << <<"div">> >> }

InitLayers ==
    /\ NoTree
    /\ call \in { [op |-> "compute_style_layers", self |-> a, initial_styling |-> b,
                   override_styling |-> c, selector |-> s] :
                    a \in LayerStylings, b \in LayerStylings, c \in OverrideStylings,
                    s \in LayerChains }
    /\ ret = None
    /\ pc = "call"

ComputeStyleLayers ==
    /\ pc = "call"
    /\ call.op = "compute_style_layers"
    /\ ret' = compute_style(call.self, call.selector, call.initial_styling, call.override_styling)
    /\ pc' = "done"
    /\ UNCHANGED <<call, ui, ncalls, events>>

NextLayers == ComputeStyleLayers

SpecLayers == InitLayers /\ [][NextLayers]_vars

LayersDone == pc = "done" /\ call.op = "compute_style_layers"

LayerLonghands == { "margin-top", "margin-right", "margin-bottom", "margin-left" }

\* the declarations of a list that write longhand k, directly or by expansion
Writes(decls, k) == { i \in DOMAIN decls : k \in DOMAIN expand_one(EmptyDict, decls[i]) }

\* the value the last of them writes
LastValue(decls, k) ==
    LET i == CHOOSE j \in Writes(decls, k) : \A m \in Writes(decls, k) : j >= m
    IN  expand_one(EmptyDict, decls[i])[k]

\* the declarations of the matching rules of the two base stylesheets (the
\* global one, then the receiver) and of the override stylesheet
BaseDecls == get_decllist(call.initial_styling, call.selector) \o get_decllist(call.self, call.selector)

OverrideDecls == get_decllist(call.override_styling, call.selector)

\* C11: a longhand that a matching rule of the override stylesheet sets, and
\* matching rules of a base stylesheet set too, resolves to what the override
\* stylesheet gives it (unset, when that is `initial`), however many base
\* rules set it.
C11_OverrideWinsOverBase ==
    LayersDone =>
        \A k \in LayerLonghands :
            (Writes(OverrideDecls, k) # {} /\ Writes(BaseDecls, k) # {}) =>
                LET v == LastValue(OverrideDecls, k) IN
                IF v = Single(Word("initial")) THEN k \notin DOMAIN ret
                ELSE k \in DOMAIN ret /\ ret[k] = v

\* C12: a longhand whose last declaration in the cascade (global stylesheet,
\* receiver, override) has the value `initial` is not in the result, whatever
\* an earlier stylesheet set it to.
C12_LastInitialUnsets ==
    LayersDone =>
        \A k \in LayerLonghands :
            LET decls == BaseDecls \o OverrideDecls IN
            (Writes(decls, k) # {} /\ LastValue(decls, k) = Single(Word("initial")))
                => k \notin DOMAIN ret

(***************************************************************************)
(* _expand_declarations on one margin or padding declaration (SpecExpand). *)
(***************************************************************************)

MaxValues == 4      \* most values in the declaration drawn

ExpandValues == { Num(5), Num(10), Num(15), Word("initial") }

\* the values the parser gives a declaration: one value, or a tuple of two
\* or more
ExpandDeclValues ==
    { Single(x) : x \in ExpandValues } \cup
    { Tuple(xs) : xs \in UNION { [1..n -> ExpandValues] : n \in 2..MaxValues } }

InitExpand ==
    /\ NoTree
    /\ call \in { [op |-> "expand_declarations", decl |-> Decl(p, v)] :
                    p \in {"margin", "padding"}, v \in ExpandDeclValues }
    /\ ret = None
    /\ pc = "call"

ExpandDeclarations ==
    /\ pc = "call"
    /\ call.op = "expand_declarations"
    /\ ret' = expand_declarations(<< call.decl >>)
    /\ pc' = "done"
    /\ UNCHANGED <<call, ui, ncalls, events>>

NextExpand == ExpandDeclarations

SpecExpand == InitExpand /\ [][NextExpand]_vars

ExpandDone == pc = "done" /\ call.op = "expand_declarations"

\* the (top, right, bottom, left) places of the values declared, by the TRBL
\* rule: each is an index into the values
TRBL(n) ==
    IF n = 1 THEN <<1, 1, 1, 1>>
    ELSE IF n = 2 THEN <<1, 2, 1, 2>>
    ELSE IF n = 3 THEN <<1, 2, 3, 2>>
    ELSE <<1, 2, 3, 4>>

Sides == <<"top", "right", "bottom", "left">>

\* C13: a margin or padding declared with 1, 2, 3 or 4 values v0..v3 gives
\* the (top, right, bottom, left) longhands (v0,v0,v0,v0), (v0,v1,v0,v1),
\* (v0,v1,v2,v1) and (v0,v1,v2,v3), a longhand given `initial` being unset,
\* and the shorthand itself is no key of the result.
C13_ShorthandExpandsByTRBL ==
    ExpandDone =>
        LET p     == call.decl.property
            items == call.decl.value.items
            at    == TRBL(Len(items))
        IN  /\ p \notin DOMAIN ret
            /\ DOMAIN ret \subseteq { Side(p, Sides[i]) : i \in 1..4 }
            /\ \A i \in 1..4 :
                  LET v == items[at[i]] IN
                  IF v = Word("initial") THEN Side(p, Sides[i]) \notin DOMAIN ret
                  ELSE /\ Side(p, Sides[i]) \in DOMAIN ret
                       /\ ret[Side(p, Sides[i])] = Single(v)

\* three different values were declared, and left took the second of them
C13_Witness ==
    /\ ExpandDone
    /\ call.decl.value.tuple /\ Len(call.decl.value.items) = 3
    /\ call.decl.value.items[1] = Num(5)
    /\ call.decl.value.items[2] = Num(10)
    /\ call.decl.value.items[3] = Num(15)
    /\ ret[Side(call.decl.property, "left")] = Single(Num(10))
    /\ ret[Side(call.decl.property, "bottom")] = Single(Num(15))

(***************************************************************************)
(* ui_core.py: UI_Core.                                                    *)
(*                                                                         *)
(* The heap h is [ui |-> the objects, raised |-> the exception that is     *)
(* unwinding, or None].  An operator that models a method takes the heap   *)
(* and returns the heap the method leaves; once h.raised is set every      *)
(* caller returns at once, as a Python exception unwinds them.  `fuel` is  *)
(* the number of frames left before RecursionError.  h.events lists what   *)
(* the call has done so far.                                               *)
(***************************************************************************)

NoNode == 0         \* `None` where a node is expected

Flags == {"style", "size", "content"}

\* what `self._id = id` stores: the builtin function of that name
BuiltinId == "<built-in function id>"

\* the style texts given to nodes, and UI_Styling('*{%s;}' % text) of each
StyleTexts == {"", "display:none"}

custom_style_of(style_str) ==
    [rules |-> << [selectors |-> << << <<"*">> >> >>,
                   decllist  |-> IF style_str = "display:none"
                                 THEN << Decl("display", Single(Word("none"))) >>
                                 ELSE <<>>] >>]

\* UI_Core.default_style after init_default_style: UI_Styling('*{;}')
default_style == custom_style_of("")

\* ui_draw.stylesheet: UI_Draw._stylesheet, None until load_stylesheet is called
ui_draw_stylesheet == NoStyling

\* UI_Core.__init__: the fields as first assigned (_selector = None is <<>>;
\* `styled` is whether _computed_styles is a dict yet, and not None; box is
\* _l, _t, _w, _h, and preferred is _preferred_width, _preferred_height); every node is a UI_Div
NewObject ==
    [selector_type     |-> "div",
     parent            |-> NoNode,
     children          |-> <<>>,
     selector          |-> <<>>,
     id                |-> None,
     classes           |-> {},
     pseudoclasses     |-> {},
     style_str         |-> "",
     is_visible        |-> FALSE,
     styled            |-> FALSE,
     computed_styles   |-> EmptyDict,
     box               |-> <<0, 0, 0, 0>>,
     preferred         |-> <<0, 0>>,
     dirty_properties  |-> Flags,
     dirty_propagation |-> [defer |-> FALSE, parent |-> {}, children |-> {}]]

Raise(h, e) == [h EXCEPT !.raised = e]

\* the call did e on node n
Note(h, e, n) ==
    IF h.raised # None THEN h ELSE [h EXCEPT !.events = Append(@, [e |-> e, n |-> n])]

\* The interpreter frames compute_style needs for the one-element chains the
\* nodes have: compute_style, get_decllist, its comprehension, match, the
\* generator of any(), msel, and splitsel or the generator of all()
StylingFrames == 7

\* sys.getrecursionlimit() less the depth the application calls from, at its
\* least: the frames a call that terminates needs at most, which is the
\* larger of clean, _compute_style down every node and compute_style, and of
\* clean, _compute_style, the setter, and propagate_dirtiness and dirty down
\* every node
RecursionLimit(h) ==
    LET n == Cardinality(DOMAIN h.ui)
    IN  IF n + StylingFrames + 1 > 2 * n + 2 THEN n + StylingFrames + 1 ELSE 2 * n + 2

\* The frames left when the application makes a call.  A recursion that does
\* not end (the children lists can hold a cycle) is cut where the frames run
\* out, which depends on the depth the call came from: one period of the
\* longest cycle of frames, dirty and propagate_dirtiness through every node
FramesLeft(h) ==
    { RecursionLimit(h) + s : s \in 0..(2 * Cardinality(DOMAIN h.ui)) }

RECURSIVE dirty(_, _, _, _, _, _)
RECURSIVE propagate_dirtiness(_, _, _)
RECURSIVE propagate_parent(_, _, _)
RECURSIVE propagate_children(_, _, _, _)

\* UI_Core.dirty
dirty(h, self, properties, parent, children, fuel) ==
    IF h.raised # None THEN h
    ELSE IF fuel = 0 THEN Raise(h, "RecursionError")
    ELSE LET h1 == [h EXCEPT
                      !.ui[self].dirty_properties = @ \cup properties,
                      !.ui[self].dirty_propagation.parent =
                          IF parent THEN @ \cup properties ELSE @,
                      !.ui[self].dirty_propagation.children =
                          IF children THEN @ \cup properties ELSE @]
         IN  propagate_dirtiness(Note(h1, "dirty", self), self, fuel - 1)

\* propagate_dirtiness with the clear() of the parent queue inside `if self._parent`
propagate_parent_keeps_undelivered(h, self, fuel) ==
    LET o == h.ui[self] IN
    IF o.dirty_propagation.parent = {} \/ o.parent = NoNode THEN h
    ELSE LET h1 == dirty(h, o.parent, o.dirty_propagation.parent, TRUE, FALSE, fuel - 1)
         IN  IF h1.raised # None THEN h1
             ELSE [h1 EXCEPT !.ui[self].dirty_propagation.parent = {}]

\* UI_Core.propagate_dirtiness: `if self._dirty_propagation['parent']: ...`
propagate_parent(h, self, fuel) ==
    LET o == h.ui[self] IN
    IF o.dirty_propagation.parent = {} THEN h
    ELSE LET h1 == IF o.parent # NoNode
                   THEN dirty(h, o.parent, o.dirty_propagation.parent, TRUE, FALSE, fuel - 1)
                   ELSE h
         IN  IF h1.raised # None THEN h1
             ELSE [h1 EXCEPT !.ui[self].dirty_propagation.parent = {}]

\* UI_Core.propagate_dirtiness: `for child in self._children: child.dirty(...)`
propagate_children(h, self, kids, fuel) ==
    IF h.raised # None \/ kids = <<>> THEN h
    ELSE propagate_children(
             dirty(h, Head(kids), h.ui[self].dirty_propagation.children, FALSE, TRUE, fuel - 1),
             self, Tail(kids), fuel)

\* UI_Core.propagate_dirtiness
propagate_dirtiness(h, self, fuel) ==
    IF h.raised # None THEN h
    ELSE IF fuel = 0 THEN Raise(h, "RecursionError")
    ELSE IF h.ui[self].dirty_propagation.defer THEN h
    ELSE LET h1 == propagate_parent(h, self, fuel) IN
         IF h1.raised # None THEN h1
         ELSE IF h1.ui[self].dirty_propagation.children = {} THEN h1
         ELSE LET h2 == propagate_children(h1, self, h1.ui[self].children, fuel) IN
              IF h2.raised # None THEN h2
              ELSE [h2 EXCEPT !.ui[self].dirty_propagation.children = {}]

\* UI_Core.defer_dirty_propagation (the setter)
set_defer_dirty_propagation(h, self, v, fuel) ==
    IF h.raised # None THEN h
    ELSE IF fuel = 0 THEN Raise(h, "RecursionError")
    ELSE propagate_dirtiness([h EXCEPT !.ui[self].dirty_propagation.defer = v],
                             self, fuel - 1)

\* UI_Core.is_dirty
is_dirty(o) ==
    \/ o.dirty_properties # {}
    \/ o.dirty_propagation.parent # {}
    \/ o.dirty_propagation.children # {}

\* UI_Core._defer_clean: set to False by __init__ and assigned nowhere else
defer_clean(o) == FALSE

Truthy(id) == id # None /\ id # ""

DictGet(d, k, def) == IF k \in DOMAIN d THEN d[k] ELSE def

RECURSIVE compute_style_node(_, _, _)
RECURSIVE compute_style_children(_, _, _)
RECURSIVE compute_content_node(_, _, _)
RECURSIVE compute_content_children(_, _, _)
RECURSIVE compute_preferred_size_node(_, _, _)
RECURSIVE compute_preferred_size_children(_, _, _)

\* UI_Core._compute_style: `for child in self._children: child._compute_style()`
compute_style_children(h, kids, fuel) ==
    IF h.raised # None \/ kids = <<>> THEN h
    ELSE compute_style_children(compute_style_node(h, Head(kids), fuel - 1), Tail(kids), fuel)

\* UI_Core._compute_style
compute_style_node(h, self, fuel) ==
    IF h.raised # None THEN h
    ELSE IF fuel = 0 THEN Raise(h, "RecursionError")
    ELSE IF defer_clean(h.ui[self]) THEN h
    ELSE IF "style" \notin h.ui[self].dirty_properties THEN h
    ELSE LET o  == h.ui[self]
             h1 == set_defer_dirty_propagation(h, self, TRUE, fuel - 1)
         IN  IF h1.raised # None THEN h1
             \* `None + [...]` when the parent has no selector yet
             ELSE IF o.parent # NoNode /\ h.ui[o.parent].selector = <<>>
             THEN Raise(h1, "TypeError")
             ELSE
             LET sel_parent == IF o.parent = NoNode THEN <<>> ELSE h.ui[o.parent].selector
                 sel == sel_parent
                        \o << node_selector(o.selector_type, IF Truthy(o.id) THEN o.id ELSE "",
                                            o.classes, o.pseudoclasses) >>
                 cs == compute_style(default_style, sel, ui_draw_stylesheet,
                                     custom_style_of(o.style_str))
                 hs == [h1 EXCEPT !.ui[self].selector = sel]
                 h2 == [Note(hs, "style", self) EXCEPT
                          !.ui[self].styled = TRUE,
                          !.ui[self].computed_styles = cs,
                          !.ui[self].is_visible =
                              DictGet(cs, "display", Single(Word("auto"))) # Single(Word("none"))]
                 h3 == compute_style_children(h2, h2.ui[self].children, fuel)
                 h4 == dirty(h3, self, {"size"}, TRUE, FALSE, fuel - 1)
             IN  IF fuel - 1 < StylingFrames THEN Raise(hs, "RecursionError")
                 ELSE IF h4.raised # None THEN h4
                 ELSE set_defer_dirty_propagation(
                          [h4 EXCEPT !.ui[self].dirty_properties = @ \ {"style"}],
                          self, FALSE, fuel - 1)

\* UI_Core._compute_content: `for child in self._children: child._compute_content()`
compute_content_children(h, kids, fuel) ==
    IF h.raised # None \/ kids = <<>> THEN h
    ELSE compute_content_children(compute_content_node(h, Head(kids), fuel - 1), Tail(kids), fuel)

\* _compute_content without `if not self.is_visible: return`
compute_content_node_ignores_visibility(h, self, fuel) ==
    IF h.raised # None THEN h
    ELSE IF fuel = 0 THEN Raise(h, "RecursionError")
    ELSE IF "content" \notin h.ui[self].dirty_properties THEN h
    ELSE LET h1 == set_defer_dirty_propagation(h, self, TRUE, fuel - 1)
             h2 == compute_content_children(Note(h1, "content", self),
                                            h1.ui[self].children, fuel)
             h3 == dirty(h2, self, {"size"}, TRUE, FALSE, fuel - 1)
         IN  IF h3.raised # None THEN h3
             ELSE set_defer_dirty_propagation(
                      [h3 EXCEPT !.ui[self].dirty_properties = @ \ {"content"}],
                      self, FALSE, fuel - 1)

\* UI_Core._compute_content (the compute_content hook of UI_Core does nothing:
\* its invocation is the event "content")
compute_content_node(h, self, fuel) ==
    IF h.raised # None THEN h
    ELSE IF fuel = 0 THEN Raise(h, "RecursionError")
    ELSE IF defer_clean(h.ui[self]) THEN h
    ELSE IF "content" \notin h.ui[self].dirty_properties THEN h
    \* the getter of is_visible is a frame
    ELSE IF fuel = 1 THEN Raise(h, "RecursionError")
    ELSE IF ~h.ui[self].is_visible THEN h
    ELSE LET h1 == set_defer_dirty_propagation(h, self, TRUE, fuel - 1)
             h2 == compute_content_children(Note(h1, "content", self),
                                            h1.ui[self].children, fuel)
             h3 == dirty(h2, self, {"size"}, TRUE, FALSE, fuel - 1)
         IN  IF h3.raised # None THEN h3
             ELSE set_defer_dirty_propagation(
                      [h3 EXCEPT !.ui[self].dirty_properties = @ \ {"content"}],
                      self, FALSE, fuel - 1)

\* UI_Core._compute_preferred_size: `for child in self._children: ...`
compute_preferred_size_children(h, kids, fuel) ==
    IF h.raised # None \/ kids = <<>> THEN h
    ELSE compute_preferred_size_children(
             compute_preferred_size_node(h, Head(kids), fuel - 1), Tail(kids), fuel)

\* _compute_preferred_size ending with `_dirty_properties.discard('size')`
compute_preferred_size_node_discards_size(h, self, fuel) ==
    IF h.raised # None THEN h
    ELSE IF fuel = 0 THEN Raise(h, "RecursionError")
    ELSE IF "size" \notin h.ui[self].dirty_properties THEN h
    ELSE IF fuel = 1 THEN Raise(h, "RecursionError")
    ELSE IF ~h.ui[self].is_visible THEN h
    ELSE LET h1 == set_defer_dirty_propagation(h, self, TRUE, fuel - 1)
             h2 == compute_preferred_size_children(h1, h1.ui[self].children, fuel)
         IN  IF h2.raised # None THEN h2
             ELSE set_defer_dirty_propagation(
                      [Note(h2, "size", self) EXCEPT !.ui[self].dirty_properties = @ \ {"size"}],
                      self, FALSE, fuel - 1)

\* UI_Core._compute_preferred_size (compute_children_content_size does
\* nothing: its invocation is the event "size"; _content_width and
\* _content_height, which it resets, are 0 throughout)
compute_preferred_size_node(h, self, fuel) ==
    IF h.raised # None THEN h
    ELSE IF fuel = 0 THEN Raise(h, "RecursionError")
    ELSE IF defer_clean(h.ui[self]) THEN h
    ELSE IF "size" \notin h.ui[self].dirty_properties THEN h
    \* the getter of is_visible is a frame
    ELSE IF fuel = 1 THEN Raise(h, "RecursionError")
    ELSE IF ~h.ui[self].is_visible THEN h
    ELSE LET h1 == set_defer_dirty_propagation(h, self, TRUE, fuel - 1)
             h2 == compute_preferred_size_children(h1, h1.ui[self].children, fuel)
         IN  IF h2.raised # None THEN h2
             ELSE set_defer_dirty_propagation(Note(h2, "size", self), self, FALSE, fuel - 1)

\* clean() running the content phase before the style phase
clean_content_first(h, self, fuel) ==
    IF ~is_dirty(h.ui[self]) \/ defer_clean(h.ui[self]) THEN h
    ELSE compute_preferred_size_node(
             compute_style_node(compute_content_node(h, self, fuel - 1), self, fuel - 1),
             self, fuel - 1)

\* UI_Core.clean
clean(h, self, fuel) ==
    IF ~is_dirty(h.ui[self]) \/ defer_clean(h.ui[self]) THEN h
    ELSE compute_preferred_size_node(
             compute_content_node(compute_style_node(h, self, fuel - 1), self, fuel - 1),
             self, fuel - 1)

RemoveFirst(seq, x) ==
    LET i == CHOOSE j \in DOMAIN seq : seq[j] = x /\ \A k \in 1..(j-1) : seq[k] # x
    IN  [k \in 1..(Len(seq) - 1) |-> IF k < i THEN seq[k] ELSE seq[k + 1]]

\* UI_Core.delete_child
\* delete_child without `child.dirty()`
delete_child_child_not_dirtied(h, self, child, fuel) ==
    IF h.raised # None THEN h
    ELSE IF ~InList(child, h.ui[self].children) THEN Raise(h, "AssertionError")
    ELSE LET h1 == [h EXCEPT !.ui[self].children = RemoveFirst(@, child)]
             h2 == [h1 EXCEPT !.ui[child].parent = NoNode]
         IN  dirty(h2, self, {"content"}, TRUE, FALSE, fuel - 1)

delete_child(h, self, child, fuel) ==
    IF h.raised # None THEN h
    ELSE IF ~InList(child, h.ui[self].children) THEN Raise(h, "AssertionError")
    ELSE LET h1 == [h EXCEPT !.ui[self].children = RemoveFirst(@, child)]
             h2 == [h1 EXCEPT !.ui[child].parent = NoNode]
             h3 == dirty(h2, child, Flags, TRUE, FALSE, fuel - 1)
         IN  dirty(h3, self, {"content"}, TRUE, FALSE, fuel - 1)

\* append_child without `assert child not in self._children`
append_child_unchecked(h, self, child, fuel) ==
    IF h.raised # None THEN h
    ELSE LET h1 == IF h.ui[child].parent # NoNode
                   THEN delete_child(h, h.ui[child].parent, child, fuel - 1)
                   ELSE h
         IN  IF h1.raised # None THEN h1
             ELSE LET h2 == [h1 EXCEPT !.ui[self].children = Append(@, child)]
                      h3 == dirty(h2, child, Flags, TRUE, FALSE, fuel - 1)
                  IN  dirty(h3, self, Flags, TRUE, FALSE, fuel - 1)

\* UI_Core.append_child (the parent of child is assigned nowhere)
append_child(h, self, child, fuel) ==
    IF h.raised # None THEN h
    ELSE IF InList(child, h.ui[self].children) THEN Raise(h, "AssertionError")
    ELSE LET h1 == IF h.ui[child].parent # NoNode
                   THEN delete_child(h, h.ui[child].parent, child, fuel - 1)
                   ELSE h
         IN  IF h1.raised # None THEN h1
             ELSE LET h2 == [h1 EXCEPT !.ui[self].children = Append(@, child)]
                      h3 == dirty(h2, child, Flags, TRUE, FALSE, fuel - 1)
                  IN  dirty(h3, self, Flags, TRUE, FALSE, fuel - 1)

RECURSIVE delete_children(_, _, _, _)
delete_children(h, self, kids, fuel) ==
    IF h.raised # None \/ kids = <<>> THEN h
    ELSE delete_children(delete_child(h, self, Head(kids), fuel), self, Tail(kids), fuel)

\* UI_Core.clear_children under UI_Core_Utils.defer_dirty(): the decorator
\* sets self._defer_dirty, which nothing reads, and calls self.dirty() last
clear_children(h, self, fuel) ==
    dirty(delete_children(h, self, h.ui[self].children, fuel - 2),
          self, Flags, TRUE, FALSE, fuel - 1)

\* UI_Core.style (the setter)
set_style(h, self, style, fuel) ==
    dirty([h EXCEPT !.ui[self].style_str = style], self, Flags, TRUE, FALSE, fuel - 1)

\* str.strip on the id texts drawn
Strip(s) == IF s = " a " THEN "a" ELSE s

\* UI_Core.id (the setter): `self._id = id` stores the builtin, not nid
set_id(h, self, nid, fuel) ==
    LET n == IF nid = None THEN "" ELSE Strip(nid) IN
    IF h.ui[self].id = n THEN h
    ELSE dirty([h EXCEPT !.ui[self].id = BuiltinId], self, Flags, TRUE, TRUE, fuel - 1)

\* `set(c for c in classes.split(' ') if c) if classes else set()`; the
\* argument is the list classes.split(' ') gives, <<>> for None
ParseClasses(words) == { words[i] : i \in { j \in DOMAIN words : words[j] # "" } }

\* UI_Core.classes (the setter)
set_classes(h, self, words, fuel) ==
    IF ParseClasses(words) = h.ui[self].classes THEN h
    ELSE dirty([h EXCEPT !.ui[self].classes = ParseClasses(words)], self, Flags, TRUE, TRUE, fuel - 1)

\* UI_Core.add_class
add_class(h, self, cls, fuel) ==
    IF cls \in h.ui[self].classes THEN h
    ELSE dirty([h EXCEPT !.ui[self].classes = @ \cup {cls}], self, Flags, TRUE, TRUE, fuel - 1)

\* UI_Core.del_class
del_class(h, self, cls, fuel) ==
    IF cls \notin h.ui[self].classes THEN h
    ELSE dirty([h EXCEPT !.ui[self].classes = @ \ {cls}], self, Flags, TRUE, TRUE, fuel - 1)

\* UI_Core.clear_pseudoclass
clear_pseudoclass(h, self, fuel) ==
    IF h.ui[self].pseudoclasses = {} THEN h
    ELSE dirty([h EXCEPT !.ui[self].pseudoclasses = {}], self, Flags, TRUE, TRUE, fuel - 1)

\* UI_Core.add_pseudoclass
add_pseudoclass(h, self, pseudo, fuel) ==
    IF pseudo \in h.ui[self].pseudoclasses THEN h
    ELSE dirty([h EXCEPT !.ui[self].pseudoclasses = @ \cup {pseudo}], self, Flags, TRUE, TRUE, fuel - 1)

\* UI_Core.del_pseudoclass
del_pseudoclass(h, self, pseudo, fuel) ==
    IF pseudo \notin h.ui[self].pseudoclasses THEN h
    ELSE dirty([h EXCEPT !.ui[self].pseudoclasses = @ \ {pseudo}], self, Flags, TRUE, TRUE, fuel - 1)

\* UI_Core.layout: `if not self._is_dirty` reads an attribute no object has
\* (is_dirty is the property, _is_dirty is assigned nowhere), so the call
\* raises before it does anything
layout(h, self, fuel) ==
    IF h.raised # None THEN h
    ELSE IF fuel = 0 THEN Raise(h, "RecursionError")
    ELSE Raise(h, "AttributeError")

\* UI_Core._get_style_num (min_v and max_v are None in every call)
get_style_num(o, k, def_v) ==
    LET v == DictGet(o.computed_styles, k, Single(Word("auto")))
    IN  IF v = Single(Word("auto")) THEN Single(Num(def_v)) ELSE v

\* UI_Core._get_style_trbl
get_style_trbl(o, kb) ==
    << get_style_num(o, Side(kb, "top"), 0), get_style_num(o, Side(kb, "right"), 0),
       get_style_num(o, Side(kb, "bottom"), 0), get_style_num(o, Side(kb, "left"), 0) >>

\* a value int arithmetic takes
IsNum(v) == ~v.tuple /\ v.items[1].t = "num"

\* position() that consumes the size flag once the box is assigned
position_consumes_size(h, self, left, top, width, height, fuel) ==
    IF h.raised # None THEN h
    ELSE IF fuel = 0 THEN Raise(h, "RecursionError")
    ELSE LET h1 == [h EXCEPT !.ui[self].box = <<left, top, width, height>>,
                             !.ui[self].dirty_properties = @ \ {"size"}]
         IN  IF ~h1.ui[self].styled THEN Raise(h1, "AttributeError") ELSE h1

\* UI_Core.position (position_children does nothing: its invocation is the
\* event "position_children", with the rectangle it is given)
position(h, self, left, top, width, height, fuel) ==
    IF h.raised # None THEN h
    ELSE IF fuel = 0 THEN Raise(h, "RecursionError")
    ELSE LET h1 == [h EXCEPT !.ui[self].box = <<left, top, width, height>>]
             o  == h1.ui[self]
         IN  \* None.get(...)
             IF ~o.styled THEN Raise(h1, "AttributeError")
             ELSE LET m == get_style_trbl(o, "margin")
                      p == get_style_trbl(o, "padding")
                      b == get_style_num(o, "border-width", 0)
                      n(v) == v.items[1].n
                  IN  IF \E v \in {m[1], m[2], m[3], m[4], p[1], p[2], p[3], p[4], b} : ~IsNum(v)
                      THEN Raise(h1, "TypeError")
                      ELSE [h1 EXCEPT !.events = Append(@,
                               [e |-> "position_children", n |-> self,
                                rect |-> << left + n(m[4]) + n(b) + n(p[4]),
                                            top - n(m[1]) - n(b) - n(p[1]),
                                            width - n(m[4]) - n(m[2]) - n(b) - n(b) - n(p[4]) - n(p[2]),
                                            height - n(m[1]) - n(m[3]) - n(b) - n(b) - n(p[1]) - n(p[3]) >>])]

\* The interpreter frames ui_draw.draw needs: UI_Draw.draw, the draw function
\* of init_draw, and a call on the shader
PaintFrames == 3

RECURSIVE draw(_, _, _)
RECURSIVE draw_children(_, _, _)

\* UI_Core.draw: `for child in self._children: child.draw()`
draw_children(h, kids, fuel) ==
    IF h.raised # None \/ kids = <<>> THEN h
    ELSE draw_children(draw(h, Head(kids), fuel - 1), Tail(kids), fuel)

\* UI_Core.draw (ui_draw.draw is the event "paint"; it calls style.get, and
\* the style is None until the first style clean)
draw(h, self, fuel) ==
    IF h.raised # None THEN h
    ELSE IF fuel = 0 \/ fuel - 1 < PaintFrames THEN Raise(h, "RecursionError")
    ELSE IF ~h.ui[self].styled THEN Raise(h, "AttributeError")
    ELSE draw_children(Note(h, "paint", self), h.ui[self].children, fuel)

\* UI_Core.__init__(parent, id, classes, style) of a new object `self`
init(h, self, parent, id, words, style, fuel) ==
    LET h0 == [h EXCEPT !.ui = [x \in DOMAIN h.ui \cup {self} |->
                                    IF x = self THEN NewObject ELSE h.ui[x]]]
        h1 == set_style(h0, self, style, fuel - 1)
        h2 == set_id(h1, self, id, fuel - 1)
        h3 == set_classes(h2, self, words, fuel - 1)
        h4 == IF parent # NoNode THEN append_child(h3, parent, self, fuel - 1) ELSE h3
    IN  dirty(h4, self, Flags, TRUE, FALSE, fuel - 1)

(***************************************************************************)
(* The tree and the calls made on it (Spec).                               *)
(***************************************************************************)

MaxNodes == 3       \* most objects constructed
MaxCalls == 2       \* most calls made on the objects after their construction

ClassNames  == {"x"}
PseudoNames == {"hover"}
IdTexts     == {None, "a"}
ClassTexts  == { <<>>, <<"x">> }            \* None or '', and 'x'
DirtyArgs   == { {"style"}, {"content", "size"} }
PositionRects == { <<10, 20, 100, 50>> }   \* left, top, width, height

Created == DOMAIN ui

Heap == [ui |-> ui, raised |-> None, events |-> <<>>]

Crashed == ret \in {"RecursionError", "TypeError"}

\* a call on the objects returns (or raises) and leaves heap h
Returns(h, c) ==
    /\ ui' = h.ui
    /\ ret' = h.raised
    /\ events' = h.events
    /\ call' = c
    /\ ncalls' = ncalls + 1
    /\ UNCHANGED pc

CanCall == pc = "idle" /\ ~Crashed /\ ncalls < MaxCalls

Init ==
    /\ ui = <<>>
    /\ ncalls = 0
    /\ call = [op |-> "start"]
    /\ ret = None
    /\ pc = "idle"
    /\ events = <<>>

\* UI_Div(parent=parent, style=style)
Create ==
    /\ pc = "idle" /\ ~Crashed
    /\ Cardinality(Created) < MaxNodes
    /\ \E parent \in Created \cup {NoNode}, style \in StyleTexts :
          LET self == Cardinality(Created) + 1 IN
          \E f \in FramesLeft(Heap) :
              LET h == init(Heap, self, parent, None, <<>>, style, f) IN
              /\ ui' = h.ui
              /\ ret' = h.raised
              /\ events' = h.events
              /\ call' = [op |-> "__init__", self |-> self, parent |-> parent]
              /\ UNCHANGED <<ncalls, pc>>

SetStyle ==
    /\ CanCall
    /\ \E self \in Created, style \in StyleTexts :
          \E f \in FramesLeft(Heap) :
              Returns(set_style(Heap, self, style, f),
                  [op |-> "style", self |-> self, changes |-> style # ui[self].style_str])

SetId ==
    /\ CanCall
    /\ \E self \in Created, nid \in IdTexts :
          \E f \in FramesLeft(Heap) :
              Returns(set_id(Heap, self, nid, f),
                  [op |-> "id", self |-> self, changes |-> TRUE])

SetClasses ==
    /\ CanCall
    /\ \E self \in Created, words \in ClassTexts :
          \E f \in FramesLeft(Heap) :
              Returns(set_classes(Heap, self, words, f),
                  [op |-> "classes", self |-> self,
                   changes |-> ParseClasses(words) # ui[self].classes])

AddClass ==
    /\ CanCall
    /\ \E self \in Created, cls \in ClassNames :
          \E f \in FramesLeft(Heap) :
              Returns(add_class(Heap, self, cls, f),
                  [op |-> "add_class", self |-> self, changes |-> cls \notin ui[self].classes])

DelClass ==
    /\ CanCall
    /\ \E self \in Created, cls \in ClassNames :
          \E f \in FramesLeft(Heap) :
              Returns(del_class(Heap, self, cls, f),
                  [op |-> "del_class", self |-> self, changes |-> cls \in ui[self].classes])

ClearPseudoclass ==
    /\ CanCall
    /\ \E self \in Created :
          \E f \in FramesLeft(Heap) :
              Returns(clear_pseudoclass(Heap, self, f),
                  [op |-> "clear_pseudoclass", self |-> self,
                   changes |-> ui[self].pseudoclasses # {}])

AddPseudoclass ==
    /\ CanCall
    /\ \E self \in Created, pseudo \in PseudoNames :
          \E f \in FramesLeft(Heap) :
              Returns(add_pseudoclass(Heap, self, pseudo, f),
                  [op |-> "add_pseudoclass", self |-> self,
                   changes |-> pseudo \notin ui[self].pseudoclasses])

DelPseudoclass ==
    /\ CanCall
    /\ \E self \in Created, pseudo \in PseudoNames :
          \E f \in FramesLeft(Heap) :
              Returns(del_pseudoclass(Heap, self, pseudo, f),
                  [op |-> "del_pseudoclass", self |-> self,
                   changes |-> pseudo \in ui[self].pseudoclasses])

AppendChild ==
    /\ CanCall
    /\ \E self \in Created, child \in Created :
          \E f \in FramesLeft(Heap) :
              Returns(append_child(Heap, self, child, f),
                  [op |-> "append_child", self |-> self, child |-> child])

DeleteChild ==
    /\ CanCall
    /\ \E self \in Created, child \in Created :
          \E f \in FramesLeft(Heap) :
              Returns(delete_child(Heap, self, child, f),
                  [op |-> "delete_child", self |-> self, child |-> child])

ClearChildren ==
    /\ CanCall
    /\ \E self \in Created :
          \E f \in FramesLeft(Heap) :
              Returns(clear_children(Heap, self, f),
                  [op |-> "clear_children", self |-> self])

Dirty ==
    /\ CanCall
    /\ \E self \in Created, properties \in DirtyArgs, parent \in BOOLEAN, children \in BOOLEAN :
          \E f \in FramesLeft(Heap) :
              Returns(dirty(Heap, self, properties, parent, children, f),
                  [op |-> "dirty", self |-> self, properties |-> properties,
                   parent |-> parent, children |-> children,
                   deferred |-> ui[self].dirty_propagation.defer])

SetDeferDirtyPropagation ==
    /\ CanCall
    /\ \E self \in Created, v \in BOOLEAN :
          \E f \in FramesLeft(Heap) :
              Returns(set_defer_dirty_propagation(Heap, self, v, f),
                  [op |-> "defer_dirty_propagation", self |-> self, v |-> v])

Clean ==
    /\ CanCall
    /\ \E self \in Created :
          \E f \in FramesLeft(Heap) :
              Returns(clean(Heap, self, f),
                  [op |-> "clean", self |-> self,
                   style |-> "style" \in ui[self].dirty_properties])

Layout ==
    /\ CanCall
    /\ \E self \in Created :
          \E f \in FramesLeft(Heap) :
              Returns(layout(Heap, self, f), [op |-> "layout", self |-> self])

Position ==
    /\ CanCall
    /\ \E self \in Created, r \in PositionRects :
          \E f \in FramesLeft(Heap) :
              Returns(position(Heap, self, r[1], r[2], r[3], r[4], f),
                  [op |-> "position", self |-> self, rect |-> r])

Draw ==
    /\ CanCall
    /\ \E self \in Created :
          \E f \in FramesLeft(Heap) :
              Returns(draw(Heap, self, f), [op |-> "draw", self |-> self])

Next ==
    \/ Create
    \/ SetStyle \/ SetId \/ SetClasses \/ AddClass \/ DelClass
    \/ ClearPseudoclass \/ AddPseudoclass \/ DelPseudoclass
    \/ AppendChild \/ DeleteChild \/ ClearChildren
    \/ Dirty \/ SetDeferDirtyPropagation \/ Clean
    \/ Layout \/ Position \/ Draw

Spec == Init /\ [][Next]_vars

(***************************************************************************)
(* The tree as the children lists give it.                                 *)
(***************************************************************************)

ChildrenOf(n) == { ui[n].children[i] : i \in DOMAIN ui[n].children }

ContainersOf(c) == { p \in Created : c \in ChildrenOf(p) }

RECURSIVE Closure(_, _)
Closure(S, k) ==
    IF k = 0 THEN S ELSE Closure(S \cup UNION { ChildrenOf(m) : m \in S }, k - 1)

DescendantsOf(n) == Closure(ChildrenOf(n), Cardinality(Created))

AncestorsOf(n) == { p \in Created : n \in DescendantsOf(p) }

NobodyDefers == \A n \in Created : ~ui[n].dirty_propagation.defer

Returned(op) == pc = "idle" /\ call.op = op /\ ret = None

\* C1: outside any deferred region, when dirty(F, parent=True, children=True)
\* on node n returns, F is in the dirty set of n, of every ancestor of n and
\* of every descendant of n.
C1_DirtyReachesAncestorsAndDescendants ==
    (Returned("dirty") /\ call.parent /\ call.children /\ NobodyDefers) =>
        \A m \in {call.self} \cup AncestorsOf(call.self) \cup DescendantsOf(call.self) :
            call.properties \subseteq ui[m].dirty_properties

IdentityMutators ==
    {"id", "classes", "add_class", "del_class", "clear_pseudoclass", "add_pseudoclass",
     "del_pseudoclass", "style"}

\* C2: an identity mutator that changes the node leaves `style` dirty on the
\* node, on its parent and on every one of its children.
C2_IdentityMutatorDirtiesStyleBothWays ==
    (pc = "idle" /\ call.op \in IdentityMutators /\ ret = None /\ call.changes /\ NobodyDefers) =>
        \A m \in {call.self} \cup ContainersOf(call.self) \cup ChildrenOf(call.self) :
            "style" \in ui[m].dirty_properties

\* C3: every node is in the children list of at most one node, and after
\* append_child(c) returns no other container still lists c.
C3_ExclusiveOwnership ==
    pc = "idle" =>
        /\ \A c \in Created : Cardinality(ContainersOf(c)) <= 1
        /\ Returned("append_child") => ContainersOf(call.child) = {call.self}

\* C4: c is in p's children list iff c's parent reference is p; after
\* p.append_child(c) the parent of c is p, after p.delete_child(c) it is empty.
C4_ParentMatchesChildren ==
    pc = "idle" =>
        /\ \A p \in Created, c \in Created : (c \in ChildrenOf(p)) <=> (ui[c].parent = p)
        /\ Returned("append_child") => ui[call.child].parent = call.self
        /\ Returned("delete_child") => ui[call.child].parent = NoNode

OwnElement(n) ==
    node_selector(ui[n].selector_type, IF Truthy(ui[n].id) THEN ui[n].id ELSE "",
                  ui[n].classes, ui[n].pseudoclasses)

StyleClean(n) == "style" \notin ui[n].dirty_properties /\ ui[n].selector # <<>>

\* C5: after a style clean, the cached selector chain of a cleaned node that
\* has a parent is the parent's cached chain followed by the one element
\* built from the node's own type, id, classes and pseudoclasses.
C5_SelectorChainExtendsParent ==
    Returned("clean") =>
        \A p \in Created, c \in Created :
            (c \in ChildrenOf(p) /\ StyleClean(p) /\ StyleClean(c)) =>
                ui[c].selector = ui[p].selector \o <<OwnElement(c)>>

\* C20: when p.append_child(c) or p.delete_child(c) returns, c has style,
\* content and size in its dirty set and p has content in its dirty set.
C20_ChildListMutationDirtiesBoth ==
    (Returned("append_child") \/ Returned("delete_child")) =>
        /\ ui[call.child].dirty_properties = Flags
        /\ "content" \in ui[call.self].dirty_properties

\* p.delete_child(c) has returned for a p and a c that a clean had styled
C20_Witness ==
    /\ Returned("delete_child")
    /\ call.self # call.child
    /\ ui[call.self].styled /\ ui[call.child].styled
    /\ ui[call.child].dirty_properties = Flags

\* C19: size is in the dirty set of every constructed node in every state, so
\* is_dirty is true of it; and when clean() returns on a visible node, size
\* is all that is left in the node's dirty set.
C19_SizeIsNeverConsumed ==
    /\ \A n \in Created : "size" \in ui[n].dirty_properties /\ is_dirty(ui[n])
    /\ (Returned("clean") /\ ui[call.self].is_visible) =>
           ui[call.self].dirty_properties = {"size"}

\* clean() has returned on a visible node whose style flag was dirty
C19_Witness ==
    /\ Returned("clean")
    /\ call.style
    /\ ui[call.self].styled /\ ui[call.self].is_visible
    /\ ui[call.self].dirty_properties = {"size"}

\* the call recomputed the style of n (e = "style") or invoked the content
\* hook of n (e = "content")
Did(log, e, n) == \E i \in DOMAIN log : log[i] = [e |-> e, n |-> n]

\* C18: a flag leaves the dirty set of a node only in a clean() call, and only
\* by the phase of that flag running on that node: style by a style
\* recomputation of the node, content by the content phase of the node, size
\* never.  No other call removes a flag from any node, whether it returns
\* or raises.
C18_OnlyCleanRemovesFlags ==
    [][\A n \in Created : \A f \in ui[n].dirty_properties \ ui'[n].dirty_properties :
           /\ call'.op = "clean"
           /\ f \in {"style", "content"}
           /\ Did(events', f, n)]_vars

\* draw() has painted a node that a clean had left with only size dirty, and
\* its dirty set is the same
C18_Witness ==
    /\ Returned("draw")
    /\ Did(events, "paint", call.self)
    /\ ui[call.self].dirty_properties = {"size"}

\* C17: when clean() returns on a node whose style flag was dirty, the style
\* of every descendant of the node was recomputed in that call, whatever the
\* descendant's own style flag was.
C17_StyleCleanRecomputesEveryDescendant ==
    (Returned("clean") /\ call.style) =>
        \A c \in DescendantsOf(call.self) : Did(events, "style", c)

\* C15: deferred regions nest.  A node that is deferring when a clean() call
\* starts (an outer region is open on it) is still deferring when the call
\* returns, the regions opened and ended by the clean phases being inner
\* ones, and what it had queued is still queued.
C15_DeferredRegionsNest ==
    [][(call'.op = "clean" /\ ret' = None) =>
          \A n \in Created :
              ui[n].dirty_propagation.defer =>
                  /\ ui'[n].dirty_propagation.defer
                  /\ ui[n].dirty_propagation.parent \subseteq ui'[n].dirty_propagation.parent
                  /\ ui[n].dirty_propagation.children \subseteq ui'[n].dirty_propagation.children]_vars

PhaseRank == [style |-> 1, content |-> 2, size |-> 3]

\* the style recomputations, content hook invocations and size hook
\* invocations of the call, as positions in its event list
PhaseEvents == { i \in DOMAIN events : events[i].e \in DOMAIN PhaseRank }

\* C16: in the events of one clean() call, which are those of the node's
\* subtree, every style recomputation comes before every content hook
\* invocation, and every content hook invocation before every size hook
\* invocation; this holds of a call that raised as well.
C16_StyleThenContentThenSize ==
    call.op = "clean" =>
        \A i, j \in PhaseEvents :
            i < j => PhaseRank[events[i].e] <= PhaseRank[events[j].e]

\* clean() has returned after all three phases ran on the node and on one
\* of its children
C16_Witness ==
    /\ Returned("clean")
    /\ \E c \in ChildrenOf(call.self) :
          /\ c # call.self
          /\ \A e \in DOMAIN PhaseRank : Did(events, e, call.self) /\ Did(events, e, c)

(***************************************************************************)
(* One deferred region around three mutations of a node (SpecBatch): on a  *)
(* tree built by the constructor, and cleaned or not,                      *)
(*     self.defer_dirty_propagation = True                                 *)
(*     self.id = ...; self.add_class(...); self.style = ...                *)
(*     self.defer_dirty_propagation = False                                *)
(* pc is the next statement; call.before is the tree when the region was   *)
(* entered; events are those of the region so far.                         *)
(***************************************************************************)

\* a statement of the region returns (or raises) and leaves heap h
BatchStep(h, next) ==
    /\ ui' = h.ui
    /\ ret' = h.raised
    /\ events' = events \o h.events
    /\ pc' = next
    /\ UNCHANGED <<call, ncalls>>

BatchBegin ==
    /\ pc = "idle" /\ ret = None
    /\ \E self \in Created :
          /\ ContainersOf(self) # {} /\ ChildrenOf(self) # {}
          /\ \E f \in FramesLeft(Heap) :
                LET h == set_defer_dirty_propagation(Heap, self, TRUE, f) IN
                /\ ui' = h.ui
                /\ ret' = h.raised
                /\ events' = h.events
                /\ pc' = "id"
                /\ call' = [op |-> "batch", self |-> self, before |-> ui]
                /\ UNCHANGED ncalls

BatchSetId ==
    /\ pc = "id" /\ ret = None
    /\ \E nid \in IdTexts \ {None} :
          \E f \in FramesLeft(Heap) : BatchStep(set_id(Heap, call.self, nid, f), "class")

BatchAddClass ==
    /\ pc = "class" /\ ret = None
    /\ \E cls \in ClassNames \ ui[call.self].classes :
          \E f \in FramesLeft(Heap) : BatchStep(add_class(Heap, call.self, cls, f), "style")

BatchSetStyle ==
    /\ pc = "style" /\ ret = None
    /\ \E style \in StyleTexts \ {ui[call.self].style_str} :
          \E f \in FramesLeft(Heap) : BatchStep(set_style(Heap, call.self, style, f), "end")

BatchEnd ==
    /\ pc = "end" /\ ret = None
    /\ \E f \in FramesLeft(Heap) :
          BatchStep(set_defer_dirty_propagation(Heap, call.self, FALSE, f), "flushed")

NextBatch ==
    \/ Create \/ Clean
    \/ BatchBegin \/ BatchSetId \/ BatchAddClass \/ BatchSetStyle \/ BatchEnd

SpecBatch == Init /\ [][NextBatch]_vars

\* how many dirty() calls node n received
Deliveries(log, n) == Cardinality({ i \in DOMAIN log : log[i] = [e |-> "dirty", n |-> n] })

\* C14: in a deferred region on a node that has a parent and children, while
\* the id, a class and the style text of the node are changed, the dirty set
\* of every other node stays as it was when the region was entered; when the
\* region ends, the parent and each child have received exactly one dirty()
\* call in all, and it carried the queued flag (style).
C14_DeferredRegionFlushesOnce ==
    /\ (pc \in {"id", "class", "style", "end"} /\ ret = None) =>
           \A m \in Created \ {call.self} :
               ui[m].dirty_properties = call.before[m].dirty_properties
    /\ (pc = "flushed" /\ ret = None) =>
           \A m \in ContainersOf(call.self) \cup ChildrenOf(call.self) :
               /\ Deliveries(events, m) = 1
               /\ "style" \in ui[m].dirty_properties

\* p.append_child(c) with c in p's children list, or p.delete_child(c) with c
\* not in it, is the call being made
Misuse(c, tree) ==
    \/ c.op = "append_child" /\ c.child \in { tree[c.self].children[i] : i \in DOMAIN tree[c.self].children }
    \/ c.op = "delete_child" /\ c.child \notin { tree[c.self].children[i] : i \in DOMAIN tree[c.self].children }

\* C21: p.append_child(c) with c already in p's children list, and
\* p.delete_child(c) with c not in it, raise, and every node's children list,
\* parent reference and dirty set are after the call what they were before.
C21_FailedMutationChangesNothing ==
    [][Misuse(call', ui) =>
          /\ ret' = "AssertionError"
          /\ \A n \in Created :
                /\ ui'[n].children = ui[n].children
                /\ ui'[n].parent = ui[n].parent
                /\ ui'[n].dirty_properties = ui[n].dirty_properties]_vars

\* append_child was refused for a child that a clean had left with only size
\* dirty, which the call would have dirtied in full
C21_Witness ==
    /\ pc = "idle" /\ call.op = "append_child" /\ ret = "AssertionError"
    /\ call.child \in ChildrenOf(call.self)
    /\ ui[call.child].dirty_properties = {"size"}

\* the number a computed style gives for k, def_v where it gives none
StyleNum(o, k, def_v) ==
    LET v == get_style_num(o, k, def_v) IN IF IsNum(v) THEN v.items[1].n ELSE def_v

\* mid(v, min, max) with max = +infinity where the style has no max
Clamp(o, v, kmin, kmax) ==
    LET lo == StyleNum(o, kmin, 0)
        w  == IF kmax \in DOMAIN o.computed_styles /\ StyleNum(o, kmax, v) < v
              THEN StyleNum(o, kmax, v) ELSE v
    IN  IF w < lo THEN lo ELSE w

\* margin + border + padding + clamped width + padding + border + margin
PreferredWidth(o) ==
    StyleNum(o, "margin-left", 0) + StyleNum(o, "border-width", 0) + StyleNum(o, "padding-left", 0)
    + Clamp(o, StyleNum(o, "width", 0), "min-width", "max-width")
    + StyleNum(o, "padding-right", 0) + StyleNum(o, "border-width", 0) + StyleNum(o, "margin-right", 0)

PreferredHeight(o) ==
    StyleNum(o, "margin-top", 0) + StyleNum(o, "border-width", 0) + StyleNum(o, "padding-top", 0)
    + Clamp(o, StyleNum(o, "height", 0), "min-height", "max-height")
    + StyleNum(o, "padding-bottom", 0) + StyleNum(o, "border-width", 0) + StyleNum(o, "margin-bottom", 0)

\* C22: layout() on a cleaned, visible node returns, and the node's preferred
\* width and height are then the sums of margin, border, padding and clamped
\* width (height) that its computed style gives.
C22_LayoutSetsPreferredSize ==
    (pc = "idle" /\ call.op = "layout"
        /\ ui[call.self].styled /\ ui[call.self].is_visible
        /\ ui[call.self].dirty_properties = {"size"}) =>
        /\ ret = None
        /\ ui[call.self].preferred = <<PreferredWidth(ui[call.self]), PreferredHeight(ui[call.self])>>

\* C23: layout() and position() on a node that is not visible return with the
\* node's preferred size and rectangle as they were, and without laying out
\* or positioning children.
C23_InvisibleNodeIsSkipped ==
    [][(call'.op \in {"layout", "position"} /\ ~ui[call'.self].is_visible) =>
          /\ ret' = None
          /\ ui'[call'.self].box = ui[call'.self].box
          /\ ui'[call'.self].preferred = ui[call'.self].preferred
          /\ events' = <<>>]_vars

\* the resolved display of n is none
DisplayNone(n) ==
    ui[n].styled /\ DictGet(ui[n].computed_styles, "display", Single(Word("auto"))) = Single(Word("none"))

Painted == { i \in DOMAIN events : events[i].e = "paint" }

\* every painted node other than the root of the traversal was painted
\* after a node that lists it as a child
PaintedAfterParent ==
    \A i \in Painted :
        events[i].n # call.self =>
            \E j \in Painted : j < i /\ events[i].n \in ChildrenOf(events[j].n)

\* C24: in a draw() traversal from a root, no node whose resolved display is
\* none is painted, nor any descendant of such a node, and every painted
\* node is painted after its parent.
C24_DrawSkipsDisplayNone ==
    (pc = "idle" /\ call.op = "draw" /\ ContainersOf(call.self) = {}) =>
        /\ \A i \in Painted :
              \A m \in {events[i].n} \cup AncestorsOf(events[i].n) : ~DisplayNone(m)
        /\ PaintedAfterParent

(***************************************************************************)
(* A clean pass over a subclass that overrides the compute_content hook    *)
(* (SpecReentrant).  The hook of UI_Core does nothing and is one of "the   *)
(* following methods [that] can be overridden"; here the override of one   *)
(* node, hook.node, makes one structural call,                             *)
(*     hook.target.append_child(hook.child), .delete_child(hook.child) or  *)
(*     .clear_children(),                                                  *)
(* while clean() is running.  The style and size phases are those of       *)
(* UI_Core; the content phase is _compute_content again, with the hook     *)
(* and with the for loop reading the list as Python's list iterator does,  *)
(* by index into the list as it is at each step.                           *)
(***************************************************************************)

StructuralOps == {"append_child", "delete_child", "clear_children"}

\* the body of the overriding compute_content
RunHook(h, hook, fuel) ==
    IF h.raised # None THEN h
    ELSE IF fuel = 0 THEN Raise(h, "RecursionError")
    ELSE IF hook.op = "append_child" THEN append_child(h, hook.target, hook.child, fuel - 1)
    ELSE IF hook.op = "delete_child" THEN delete_child(h, hook.target, hook.child, fuel - 1)
    ELSE clear_children(h, hook.target, fuel - 1)

RECURSIVE compute_content_overridden(_, _, _, _)
RECURSIVE compute_content_loop(_, _, _, _, _)

\* UI_Core._compute_content: `for child in self._children: child._compute_content()`
compute_content_loop(h, hook, self, i, fuel) ==
    IF h.raised # None \/ i > Len(h.ui[self].children) THEN h
    ELSE compute_content_loop(
             compute_content_overridden(h, hook, h.ui[self].children[i], fuel - 1),
             hook, self, i + 1, fuel)

\* UI_Core._compute_content, compute_content overridden on hook.node
compute_content_overridden(h, hook, self, fuel) ==
    IF h.raised # None THEN h
    ELSE IF fuel = 0 THEN Raise(h, "RecursionError")
    ELSE IF defer_clean(h.ui[self]) THEN h
    ELSE IF "content" \notin h.ui[self].dirty_properties THEN h
    ELSE IF fuel = 1 THEN Raise(h, "RecursionError")
    ELSE IF ~h.ui[self].is_visible THEN h
    ELSE LET h1 == set_defer_dirty_propagation(h, self, TRUE, fuel - 1)
             hk == IF hook.node = self
                   THEN RunHook(Note(h1, "content", self), hook, fuel - 1)
                   ELSE Note(h1, "content", self)
             h2 == compute_content_loop(hk, hook, self, 1, fuel)
             h3 == dirty(h2, self, {"size"}, TRUE, FALSE, fuel - 1)
         IN  IF h3.raised # None THEN h3
             ELSE set_defer_dirty_propagation(
                      [h3 EXCEPT !.ui[self].dirty_properties = @ \ {"content"}],
                      self, FALSE, fuel - 1)

\* UI_Core.clean
clean_overridden(h, hook, self, fuel) ==
    IF ~is_dirty(h.ui[self]) \/ defer_clean(h.ui[self]) THEN h
    ELSE compute_preferred_size_node(
             compute_content_overridden(compute_style_node(h, self, fuel - 1), hook, self, fuel - 1),
             self, fuel - 1)

\* root.clean(), the hook and its call being on nodes of root's subtree; the
\* hook appends no node to itself or to a descendant of it (the trees stay
\* trees)
CleanReentrant ==
    /\ pc = "idle" /\ ret = None
    /\ \E root \in Created :
          \E node \in {root} \cup DescendantsOf(root), target \in {root} \cup DescendantsOf(root),
             child \in Created, op \in StructuralOps :
              /\ op = "append_child" => child \notin {target} \cup AncestorsOf(target)
              /\ \E f \in FramesLeft(Heap) :
                  LET hook == [node |-> node, op |-> op, target |-> target, child |-> child]
                      h == clean_overridden(Heap, hook, root, f)
                  IN  /\ ui' = h.ui
                      /\ ret' = h.raised
                      /\ events' = h.events
                      /\ call' = [op |-> "clean", self |-> root, hook |-> hook, before |-> ui]
                      /\ pc' = "cleaned"
                      /\ UNCHANGED ncalls

NextReentrant == Create \/ CleanReentrant

SpecReentrant == Init /\ [][NextReentrant]_vars

\* C25: a structural call made from the content hook while the clean pass is
\* running on the subtree is rejected with an error, and every children
\* list is after the pass what it was before.
C25_ReentrantMutationRejected ==
    (pc = "cleaned" /\ Did(events, "content", call.hook.node)) =>
        /\ ret # None
        /\ \A n \in Created : ui[n].children = call.before[n].children

\* C26: when clean() returns, every node whose style it recomputed is visible
\* iff its resolved display is not none; for such a node with display none
\* the call invoked neither the content hook nor the size hook, and content
\* is still in the node's dirty set.
C26_DisplayNoneIsNotCleaned ==
    Returned("clean") =>
        \A n \in Created :
            Did(events, "style", n) =>
                /\ ui[n].is_visible <=> ~DisplayNone(n)
                /\ DisplayNone(n) =>
                      /\ ~Did(events, "content", n) /\ ~Did(events, "size", n)
                      /\ "content" \in ui[n].dirty_properties

\* clean() has returned on a visible node, having recomputed the style of a
\* child whose display is none
C26_Witness ==
    /\ Returned("clean")
    /\ ui[call.self].is_visible /\ Did(events, "content", call.self)
    /\ \E c \in ChildrenOf(call.self) :
          /\ Did(events, "style", c) /\ DisplayNone(c) /\ ~ui[c].is_visible
          /\ ui[c].dirty_properties = {"content", "size"}

(***************************************************************************)
(* clean() on the root after a mutation (SpecReclean): on a tree built by  *)
(* the constructor, and cleaned or not, one call changes a node (a dirty   *)
(* call, an identity change, append_child or delete_child), and clean()    *)
(* is then called on a node that no children list holds.                   *)
(***************************************************************************)

\* the mutation returns (or raises) and leaves heap h
Mutated(h, c) ==
    /\ ui' = h.ui
    /\ ret' = h.raised
    /\ events' = h.events
    /\ call' = c
    /\ pc' = "mutated"
    /\ UNCHANGED ncalls

CanMutate == pc = "idle" /\ ret = None

MutateDirty ==
    /\ CanMutate
    /\ \E self \in Created, properties \in DirtyArgs, parent \in BOOLEAN, children \in BOOLEAN :
          \E f \in FramesLeft(Heap) :
              Mutated(dirty(Heap, self, properties, parent, children, f),
                  [op |-> "dirty", self |-> self])

MutateStyle ==
    /\ CanMutate
    /\ \E self \in Created, style \in StyleTexts :
          \E f \in FramesLeft(Heap) :
              Mutated(set_style(Heap, self, style, f), [op |-> "style", self |-> self])

MutateAddClass ==
    /\ CanMutate
    /\ \E self \in Created, cls \in ClassNames :
          \E f \in FramesLeft(Heap) :
              Mutated(add_class(Heap, self, cls, f), [op |-> "add_class", self |-> self])

MutateAppendChild ==
    /\ CanMutate
    /\ \E self \in Created, child \in Created :
          \E f \in FramesLeft(Heap) :
              Mutated(append_child(Heap, self, child, f),
                  [op |-> "append_child", self |-> self, child |-> child])

MutateDeleteChild ==
    /\ CanMutate
    /\ \E self \in Created, child \in Created :
          \E f \in FramesLeft(Heap) :
              Mutated(delete_child(Heap, self, child, f),
                  [op |-> "delete_child", self |-> self, child |-> child])

CleanRoot ==
    /\ pc = "mutated" /\ ~Crashed
    /\ \E root \in Created :
          /\ ContainersOf(root) = {}
          /\ \E f \in FramesLeft(Heap) :
                LET h == clean(Heap, root, f) IN
                /\ ui' = h.ui
                /\ ret' = h.raised
                /\ events' = h.events
                /\ call' = [op |-> "clean", self |-> root, mutation |-> call]
                /\ pc' = "recleaned"
                /\ UNCHANGED ncalls

NextReclean ==
    \/ Create \/ Clean
    \/ MutateDirty \/ MutateStyle \/ MutateAddClass \/ MutateAppendChild \/ MutateDeleteChild
    \/ CleanRoot

SpecReclean == Init /\ [][NextReclean]_vars

\* n and every node above n are visible
Shown(n) == \A m \in {n} \cup AncestorsOf(n) : ui[m].is_visible

\* C27: when clean() has returned on the root of a tree, no visible node of
\* the tree (the node and all nodes above it being visible) has style or
\* content in its dirty set, whatever call preceded the clean().
C27_RootCleanCleansTree ==
    (pc = "recleaned" /\ ret = None) =>
        \A n \in {call.self} \cup DescendantsOf(call.self) :
            Shown(n) => ui[n].dirty_properties \cap {"style", "content"} = {}

C29_ChildrenAcyclic ==
    /\ \A n \in Created : n \notin DescendantsOf(n)
    /\ ret # "RecursionError"

\* the declarations of the matching rules of each layer, lowest first: the
\* global stylesheet (initial_styling), the receiver (the default_style of
\* the node's class), the override (the node's inline style)
Layers ==
    << get_decllist(call.initial_styling, call.selector),
       get_decllist(call.self, call.selector),
       get_decllist(call.override_styling, call.selector) >>

\* the layers that declare longhand k
Declaring(k) == { l \in 1..3 : Writes(Layers[l], k) # {} }

\* the highest of them
Highest(k) == CHOOSE l \in Declaring(k) : \A m \in Declaring(k) : l >= m

\* C30: a longhand declared in several of the three layers resolves to the
\* value the highest layer declaring it gives it (unset, when that is
\* `initial`): the inline style over the default_style over the global
\* stylesheet.
C30_ThreeLayerPrecedence ==
    LayersDone =>
        \A k \in LayerLonghands :
            Cardinality(Declaring(k)) >= 2 =>
                LET v == LastValue(Layers[Highest(k)], k) IN
                IF v = Single(Word("initial")) THEN k \notin DOMAIN ret
                ELSE k \in DOMAIN ret /\ ret[k] = v

(***************************************************************************)
(* Setting the id, cleaning, and setting the same id again (SpecId): on a  *)
(* tree built by the constructor, and cleaned or not,                      *)
(*     self.id = s; self.clean(); self.id = s                              *)
(* pc is "set" after the first statement, "styled" after the second and    *)
(* "again" after the third; call.before is the tree before the third.      *)
(***************************************************************************)

IdStrings == {"a", " a "}

IdSet ==
    /\ pc = "idle" /\ ret = None
    /\ \E self \in Created, nid \in IdStrings :
          \E f \in FramesLeft(Heap) :
              LET h == set_id(Heap, self, nid, f) IN
              /\ ui' = h.ui
              /\ ret' = h.raised
              /\ events' = h.events
              /\ call' = [op |-> "id", self |-> self, nid |-> nid, before |-> ui]
              /\ pc' = "set"
              /\ UNCHANGED ncalls

IdClean ==
    /\ pc = "set" /\ ret = None
    /\ \E f \in FramesLeft(Heap) :
          LET h == clean(Heap, call.self, f) IN
          /\ ui' = h.ui
          /\ ret' = h.raised
          /\ events' = h.events
          /\ pc' = "styled"
          /\ UNCHANGED <<call, ncalls>>

IdSetAgain ==
    /\ pc = "styled" /\ ret = None
    /\ \E f \in FramesLeft(Heap) :
          LET h == set_id(Heap, call.self, call.nid, f) IN
          /\ ui' = h.ui
          /\ ret' = h.raised
          /\ events' = h.events
          /\ call' = [call EXCEPT !.before = ui]
          /\ pc' = "again"
          /\ UNCHANGED ncalls

NextId == Create \/ Clean \/ IdSet \/ IdClean \/ IdSetAgain

SpecId == Init /\ [][NextId]_vars

\* C31: after self.id = s, the id of the node is s without its surrounding
\* whitespace; the last element of the selector chain that the next style
\* clean builds is the node's type, `#` and that id, then its classes and
\* pseudoclasses; and setting the id to s again changes no dirty set.
C31_IdRoundTrip ==
    /\ (pc \in {"set", "styled", "again"} /\ ret = None) =>
           ui[call.self].id = Strip(call.nid)
    /\ (pc = "styled" /\ ret = None) =>
           /\ ui[call.self].selector # <<>>
           /\ ui[call.self].selector[Len(ui[call.self].selector)] =
                  node_selector(ui[call.self].selector_type, Strip(call.nid),
                                ui[call.self].classes, ui[call.self].pseudoclasses)
    /\ (pc = "again" /\ ret = None) =>
           \A n \in Created : ui[n].dirty_properties = call.before[n].dirty_properties

====
